---- MODULE Spec2Model ----
(***************************************************************************)
(* TetrisEnv (src/tetris_env.py): the Gym adapter around the Tetris game   *)
(* engine.  The adapter's own state is last_score, _screen and the grid    *)
(* dimensions read at construction; the engine (module `game`) and the     *)
(* pygame display are collaborators, modelled by the state they expose.    *)
(* A public call is one action, except step(), whose hard-drop fallback    *)
(* loop makes its position (pc) part of the state: StepBegin dispatches    *)
(* the action, FallbackLoop is one iteration of the while loop, StepTick   *)
(* is the tick and the rest of the method.  No other call starts while a   *)
(* step is in progress (single-threaded, synchronous).                     *)
(***************************************************************************)
EXTENDS Integers, Sequences, FiniteSets, TLC

VARIABLES
    game,          \* self.game: the engine's board, score, game_over, locked
    has_hard_drop, \* hasattr(self.game, 'hard_drop'), fixed for the engine
    np_wraps,      \* the NumPy build: out-of-range ints wrap (TRUE) or raise
    grid_height,   \* self.grid_height
    grid_width,    \* self.grid_width
    last_score,    \* self.last_score
    screen,        \* self._screen (NoScreen is None)
    pg_live,       \* pygame: the display surface exists and was not quit
    created,       \* number of surfaces made by pygame.display.set_mode
    pc,            \* position inside step(): "idle", "loop" or "tick"
    action,        \* the argument of the step() in progress
    calls,         \* engine and pygame calls made by the current/last call
    pre,           \* what the current/last call found on entry
    ret,           \* what the last call returned or raised
    rendered,      \* render() was called at least once
    closed,        \* close() was called at least once
    baselined      \* a reset() or a step() has assigned last_score

vars == <<game, has_hard_drop, np_wraps, grid_height, grid_width, last_score,
          screen, pg_live, created, pc, action, calls, pre, ret,
          rendered, closed, baselined>>

-----------------------------------------------------------------------------
(* Bounds of the model. *)

\* the piece/colour code the occupied cells hold
MaxCell == 2
\* the engine's score is capped here
MaxScore == 2
\* most points one tick adds
MaxGain == 1
\* most rows the active piece can still fall
MaxFall == 1

(* The engine's board size (the real one is 20 x 10). *)
GridRows == 2
GridCols == 1

cell_size == 30

Min(a, b) == IF a < b THEN a ELSE b

-----------------------------------------------------------------------------
(* The game engine, as the adapter sees it. *)

\* cell values: 0 empty, a colour code above 1, and 128, the first value that
\* does not fit np.int8
CellValues == {0, MaxCell, 128}

Boards == [1 .. GridRows -> [1 .. GridCols -> CellValues]]

\* locked pieces do not fall
Placements == {<<TRUE, 0>>} \cup {<<FALSE, f>> : f \in 0 .. MaxFall}

EmptyBoard == [r \in 1 .. GridRows |-> [c \in 1 .. GridCols |-> 0]]

\* Game() and Game.reset(): an empty board, a fresh piece, not game over; the
\* starting score is the engine's choice
GameStart ==
    { [board |-> EmptyBoard, score |-> s, game_over |-> FALSE, locked |-> FALSE,
       fall |-> f] : s \in 0 .. 1, f \in 0 .. MaxFall }

\* move_left, move_right, rotate: the active piece moves or turns; the board
\* shows it or not, nothing locks and nothing is scored
game_shift(g) == { [g EXCEPT !.board = b] : b \in {g.board} \cup {x \in Boards : x[1] # g.board[1] /\ x[2] = g.board[2]} }

\* move_down: one row down, or the piece locks where it rests
game_move_down(g) ==
    IF g.locked THEN {g}
    ELSE IF g.fall > 0
         THEN { [g EXCEPT !.board = b, !.fall = g.fall - 1] : b \in Boards }
         ELSE { [g EXCEPT !.board = b, !.locked = TRUE] : b \in Boards }

\* hard_drop: instant placement
game_hard_drop(g) == { [g EXCEPT !.board = b, !.locked = TRUE, !.fall = 0] : b \in Boards }

\* step: one gravity tick; the only place the score advances
game_step(g) ==
    { [board |-> b, score |-> s, game_over |-> o, locked |-> p[1], fall |-> p[2]] :
        b \in Boards,
        s \in g.score .. Min(g.score + MaxGain, MaxScore),
        o \in (IF g.game_over THEN {TRUE} ELSE BOOLEAN),
        p \in Placements }

-----------------------------------------------------------------------------
(* NumPy and pygame, as the adapter uses them. *)

\* np.int8 of an integer that wraps
ToInt8(v) == LET m == v % 256 IN IF m > 127 THEN m - 256 ELSE m

FitsInt8(board) ==
    \A r \in 1 .. Len(board) : \A c \in 1 .. Len(board[r]) :
        board[r][c] >= -128 /\ board[r][c] <= 127

\* np.array(grid, dtype=np.int8)
AsInt8(board) == [r \in 1 .. Len(board) |-> [c \in 1 .. Len(board[r]) |-> ToInt8(board[r][c])]]

NoScreen == [id |-> 0, size |-> <<0, 0>>]

\* pygame: a display surface is unusable once pygame.quit() has run; fill on
\* it raises pygame.error ("display Surface quit")
SurfaceQuit(s, live) == s # NoScreen /\ ~live

-----------------------------------------------------------------------------
(* TetrisEnv *)

ValidActions == 0 .. 4
Actions == 0 .. 5
Modes == {"human", "rgb_array"}
\* seed(seed=None): -1 stands for None
Seeds == {-1, 7}

NoReturn == [op |-> "init", action |-> -1, mode |-> "", err |-> "none",
             obs |-> <<>>, reward |-> 0, done |-> FALSE, info |-> -1]

NoEntry == [score |-> 0, game_over |-> FALSE, last_score |-> 0, baselined |-> FALSE,
            live |-> FALSE, released |-> FALSE, screen_id |-> 0]

\* what step() finds on entry: the engine's score and game_over, and last_score
StepEntry == [NoEntry EXCEPT !.score = game.score, !.game_over = game.game_over,
                             !.last_score = last_score, !.baselined = baselined]

\* what reset() finds on entry: whether the episode is over
ResetEntry == [NoEntry EXCEPT !.game_over = game.game_over]

\* what render() and close() find on entry: the surface held, live or released
ScreenEntry == [NoEntry EXCEPT !.live = screen # NoScreen /\ pg_live,
                               !.released = screen # NoScreen /\ ~pg_live,
                               !.screen_id = screen.id]

\* _get_observation: (arr > 0).astype(np.int8)
get_observation_unthresholded(board) == AsInt8(board)
get_observation(board) ==
    LET arr == AsInt8(board)
    IN  [r \in 1 .. Len(arr) |-> [c \in 1 .. Len(arr[r]) |-> IF arr[r][c] > 0 THEN 1 ELSE 0]]

\* np.array raises OverflowError on builds that do not wrap
ObservationError(board) == IF FitsInt8(board) \/ np_wraps THEN "none" ELSE "OverflowError"

Init ==
    /\ game \in GameStart
    /\ has_hard_drop \in BOOLEAN
    /\ np_wraps \in BOOLEAN
    /\ grid_height = Len(game.board)
    /\ grid_width = Len(game.board[1])
    /\ last_score = 0
    /\ screen = NoScreen
    /\ pg_live = FALSE
    /\ created = 0
    /\ pc = "idle"
    /\ action = -1
    /\ calls = <<>>
    /\ pre = NoEntry
    /\ ret = NoReturn
    /\ rendered = FALSE
    /\ closed = FALSE
    /\ baselined = FALSE

\* reset: last_score = self.game.score
ResetBaseline_zero(g) == 0
ResetBaseline(g) == g.score

\* reset that leaves the engine as it is
Reset_skips_engine ==
    /\ pc = "idle"
    /\ game' = game
    /\ last_score' = ResetBaseline(game)
    /\ ret' = [NoReturn EXCEPT !.op = "reset",
                               !.err = ObservationError(game.board),
                               !.obs = IF ObservationError(game.board) = "none"
                                       THEN get_observation(game.board) ELSE <<>>]
    /\ calls' = <<>>
    /\ pre' = ResetEntry
    /\ baselined' = TRUE
    /\ UNCHANGED <<has_hard_drop, np_wraps, grid_height, grid_width, screen, pg_live,
                   created, pc, action, rendered, closed>>

Reset ==
    /\ pc = "idle"
    /\ \E g \in GameStart :
        /\ game' = g
        /\ last_score' = ResetBaseline(g)
        /\ ret' = [NoReturn EXCEPT !.op = "reset",
                                   !.err = ObservationError(g.board),
                                   !.obs = IF ObservationError(g.board) = "none"
                                           THEN get_observation(g.board) ELSE <<>>]
    /\ calls' = <<"reset">>
    /\ pre' = ResetEntry
    /\ baselined' = TRUE
    /\ UNCHANGED <<has_hard_drop, np_wraps, grid_height, grid_width, screen, pg_live,
                   created, pc, action, rendered, closed>>

\* the fallback loop's exit test: while not self.game.locked
FallbackDone_omitted(g) == TRUE
FallbackDone_never(g) == FALSE
FallbackDone(g) == g.locked

\* soft drop applied twice
StepBegin_double_drop(a) ==
    /\ pc = "idle"
    /\ action' = a
    /\ pre' = StepEntry
    /\ ret' = [NoReturn EXCEPT !.op = "step", !.action = a, !.err = "running"]
    /\ CASE a \in {0, 1, 2} ->
                     /\ game' \in game_shift(game)
                     /\ calls' = <<(CASE a = 0 -> "move_left" [] a = 1 -> "move_right"
                                      [] OTHER -> "rotate")>>
                     /\ pc' = "tick"
         [] a = 3 -> /\ \E g1 \in game_move_down(game) : game' \in game_move_down(g1)
                     /\ calls' = <<"move_down", "move_down">>
                     /\ pc' = "tick"
         [] a = 4 /\ has_hard_drop ->
                     /\ game' \in game_hard_drop(game)
                     /\ calls' = <<"hard_drop">>
                     /\ pc' = "tick"
         [] a = 4 /\ ~has_hard_drop ->
                     /\ game' = game
                     /\ calls' = <<>>
                     /\ pc' = "loop"
         [] OTHER -> /\ game' = game
                     /\ calls' = <<>>
                     /\ pc' = "tick"
    /\ UNCHANGED <<has_hard_drop, np_wraps, grid_height, grid_width, last_score, screen,
                   pg_live, created, rendered, closed, baselined>>

\* step that restarts the engine by itself once the game is over
StepBegin_autoreset(a) ==
    /\ pc = "idle"
    /\ action' = a
    /\ pre' = StepEntry
    /\ ret' = [NoReturn EXCEPT !.op = "step", !.action = a, !.err = "running"]
    /\ IF game.game_over
       THEN /\ game' \in GameStart
            /\ calls' = <<"reset">>
            /\ pc' = "tick"
       ELSE
            CASE a = 0 -> /\ game' \in game_shift(game)
                         /\ calls' = <<"move_left">>
                         /\ pc' = "tick"
             [] a = 1 -> /\ game' \in game_shift(game)
                         /\ calls' = <<"move_right">>
                         /\ pc' = "tick"
             [] a = 2 -> /\ game' \in game_shift(game)
                         /\ calls' = <<"rotate">>
                         /\ pc' = "tick"
             [] a = 3 -> /\ game' \in game_move_down(game)
                         /\ calls' = <<"move_down">>
                         /\ pc' = "tick"
             [] a = 4 /\ has_hard_drop ->
                         /\ game' \in game_hard_drop(game)
                         /\ calls' = <<"hard_drop">>
                         /\ pc' = "tick"
             [] a = 4 /\ ~has_hard_drop ->
                         /\ game' = game
                         /\ calls' = <<>>
                         /\ pc' = "loop"
             [] OTHER -> /\ game' = game
                         /\ calls' = <<>>
                         /\ pc' = "tick"
    /\ UNCHANGED <<has_hard_drop, np_wraps, grid_height, grid_width, last_score, screen,
                   pg_live, created, rendered, closed, baselined>>

\* step, lines 57-74: apply the player action
StepBegin(a) ==
    /\ pc = "idle"
    /\ action' = a
    /\ pre' = StepEntry
    /\ ret' = [NoReturn EXCEPT !.op = "step", !.action = a, !.err = "running"]
    /\ CASE a = 0 -> /\ game' \in game_shift(game)
                     /\ calls' = <<"move_left">>
                     /\ pc' = "tick"
         [] a = 1 -> /\ game' \in game_shift(game)
                     /\ calls' = <<"move_right">>
                     /\ pc' = "tick"
         [] a = 2 -> /\ game' \in game_shift(game)
                     /\ calls' = <<"rotate">>
                     /\ pc' = "tick"
         [] a = 3 -> /\ game' \in game_move_down(game)
                     /\ calls' = <<"move_down">>
                     /\ pc' = "tick"
         [] a = 4 /\ has_hard_drop ->
                     /\ game' \in game_hard_drop(game)
                     /\ calls' = <<"hard_drop">>
                     /\ pc' = "tick"
         [] a = 4 /\ ~has_hard_drop ->
                     /\ game' = game
                     /\ calls' = <<>>
                     /\ pc' = "loop"
         [] OTHER -> /\ game' = game
                     /\ calls' = <<>>
                     /\ pc' = "tick"
    /\ UNCHANGED <<has_hard_drop, np_wraps, grid_height, grid_width, last_score, screen,
                   pg_live, created, rendered, closed, baselined>>

\* step, lines 73-74: one test of the while loop and, if it fails, one move_down
\* (the log of calls keeps the first MaxFall + 2 of them: a piece is locked
\* after MaxFall + 1)
FallbackLoop ==
    /\ pc = "loop"
    /\ IF FallbackDone(game)
       THEN /\ pc' = "tick"
            /\ UNCHANGED <<game, calls>>
       ELSE /\ game' \in game_move_down(game)
            /\ calls' = IF Len(calls) < MaxFall + 2 THEN Append(calls, "move_down")
                        ELSE calls
            /\ pc' = "loop"
    /\ UNCHANGED <<has_hard_drop, np_wraps, grid_height, grid_width, last_score, screen,
                   pg_live, created, action, pre, ret, rendered, closed, baselined>>

\* reward = current_score - self.last_score
StepReward_absolute(current_score, last) == current_score
StepReward(current_score, last) == current_score - last

\* done = self.game.game_over, read after the tick
StepDone_stale(g) == game.game_over
StepDone(g) == g.game_over

\* the tick run twice in one step
StepTick_twice ==
    /\ pc = "tick"
    /\ \E g1 \in game_step(game) : \E g \in game_step(g1) :
        LET current_score == g.score
            err == ObservationError(g.board)
        IN  /\ game' = g
            /\ last_score' = current_score
            /\ ret' = IF err = "none"
                      THEN [ret EXCEPT !.err = "none",
                                       !.obs = get_observation(g.board),
                                       !.reward = StepReward(current_score, last_score),
                                       !.done = StepDone(g),
                                       !.info = current_score]
                      ELSE [ret EXCEPT !.err = err]
    /\ calls' = calls \o <<"step", "step">>
    /\ pc' = "idle"
    /\ action' = -1
    /\ baselined' = TRUE
    /\ UNCHANGED <<has_hard_drop, np_wraps, grid_height, grid_width, screen, pg_live,
                   created, pre, rendered, closed>>

\* step, lines 76-90: the tick, the reward, done, the observation
StepTick ==
    /\ pc = "tick"
    /\ \E g \in game_step(game) :
        LET current_score == g.score
            err == ObservationError(g.board)
        IN  /\ game' = g
            /\ last_score' = current_score
            /\ ret' = IF err = "none"
                      THEN [ret EXCEPT !.err = "none",
                                       !.obs = get_observation(g.board),
                                       !.reward = StepReward(current_score, last_score),
                                       !.done = StepDone(g),
                                       !.info = current_score]
                      ELSE [ret EXCEPT !.err = err]
    /\ calls' = Append(calls, "step")
    /\ pc' = "idle"
    /\ action' = -1
    /\ baselined' = TRUE
    /\ UNCHANGED <<has_hard_drop, np_wraps, grid_height, grid_width, screen, pg_live,
                   created, pre, rendered, closed>>

\* render, line 96: if self._screen is None
NeedSurface_always(s) == TRUE
NeedSurface(s) == s = NoScreen

\* render, lines 99-101: the size handed to pygame.display.set_mode
SurfaceSize(h, w) == <<w * cell_size, h * cell_size>>

\* render, lines 102-104: fill, draw and flip run unguarded, so what pygame
\* raises at fill leaves render before anything is drawn
RenderError_swallowed(s, live) == "none"
RenderError(s, live) == IF SurfaceQuit(s, live) THEN "pygame.error" ELSE "none"

\* render ignores its mode argument
Render(mode) ==
    /\ pc = "idle"
    /\ LET make == NeedSurface(screen)
           s == IF make THEN [id |-> created + 1, size |-> SurfaceSize(grid_height, grid_width)]
                        ELSE screen
           live == make \/ pg_live
           made == IF make THEN <<"pygame.init", "set_mode">> ELSE <<>>
       IN  /\ screen' = s
           /\ pg_live' = live
           /\ created' = IF make THEN created + 1 ELSE created
           /\ IF RenderError(s, live) # "none"
              THEN /\ calls' = made
                   /\ ret' = [NoReturn EXCEPT !.op = "render", !.mode = mode,
                                              !.err = RenderError(s, live)]
              ELSE /\ calls' = made \o <<"fill", "draw", "flip">>
                   /\ ret' = [NoReturn EXCEPT !.op = "render", !.mode = mode]
    /\ pre' = ScreenEntry
    /\ rendered' = TRUE
    /\ UNCHANGED <<game, has_hard_drop, np_wraps, grid_height, grid_width, last_score,
                   pc, action, closed, baselined>>

\* close: if self._screen: pygame.quit()
Close ==
    /\ pc = "idle"
    /\ IF screen # NoScreen
       THEN /\ pg_live' = FALSE
            /\ calls' = <<"pygame.quit">>
       ELSE /\ pg_live' = pg_live
            /\ calls' = <<>>
    /\ ret' = [NoReturn EXCEPT !.op = "close"]
    /\ pre' = ScreenEntry
    /\ closed' = TRUE
    /\ UNCHANGED <<game, has_hard_drop, np_wraps, grid_height, grid_width, last_score,
                   screen, created, pc, action, rendered, baselined>>

\* seed: gym.spaces has no attribute np_random in any gym release, so line
\* 125 raises AttributeError before self.np_random is assigned or anything
\* is returned
Seed(seed) ==
    /\ pc = "idle"
    /\ calls' = <<>>
    /\ ret' = [NoReturn EXCEPT !.op = "seed", !.err = "AttributeError"]
    /\ pre' = NoEntry
    /\ UNCHANGED <<game, has_hard_drop, np_wraps, grid_height, grid_width, last_score,
                   screen, pg_live, created, pc, action, rendered, closed, baselined>>

Next ==
    \/ Reset
    \/ \E a \in Actions : StepBegin(a)
    \/ FallbackLoop
    \/ StepTick
    \/ \E mode \in Modes : Render(mode)
    \/ Close
    \/ \E seed \in Seeds : Seed(seed)

Spec == Init /\ [][Next]_vars

-----------------------------------------------------------------------------
(* Construction, on engines whose board may have no rows or no columns. *)

BoardOfShape(rows, cols) == [r \in 1 .. rows |-> [c \in 1 .. cols |-> 0]]

\* the engines TetrisEnv() may be built on: every board shape up to the
\* modelled one, the empty ones included
EnginesToWrap ==
    { [g EXCEPT !.board = BoardOfShape(rows, cols)] :
        g \in GameStart, rows \in 0 .. GridRows, cols \in 0 .. GridCols }

\* before __init__ runs: the engine exists, the adapter's fields do not
ConstructInit ==
    /\ game \in EnginesToWrap
    /\ has_hard_drop \in BOOLEAN
    /\ np_wraps \in BOOLEAN
    /\ grid_height = -1
    /\ grid_width = -1
    /\ last_score = -1
    /\ screen = NoScreen
    /\ pg_live = FALSE
    /\ created = 0
    /\ pc = "new"
    /\ action = -1
    /\ calls = <<>>
    /\ pre = NoEntry
    /\ ret = NoReturn
    /\ rendered = FALSE
    /\ closed = FALSE
    /\ baselined = FALSE

\* __init__: len(grid) and len(grid[0]) are taken as they are; grid[0] raises
\* IndexError on a board without rows, and nothing rejects rows without
\* columns (spaces.Box accepts a zero-sized shape)
Construct ==
    /\ pc = "new"
    /\ IF Len(game.board) = 0
       THEN /\ pc' = "failed"
            /\ ret' = [NoReturn EXCEPT !.err = "IndexError"]
            /\ UNCHANGED <<grid_height, grid_width, last_score, screen>>
       ELSE /\ pc' = "idle"
            /\ grid_height' = Len(game.board)
            /\ grid_width' = Len(game.board[1])
            /\ last_score' = 0
            /\ screen' = NoScreen
            /\ ret' = NoReturn
    /\ UNCHANGED <<game, has_hard_drop, np_wraps, pg_live, created, action, calls, pre,
                   rendered, closed, baselined>>

\* the engine has the board size the calls after construction are modelled for
ModelledEngine == game.board \in Boards

ConstructNext ==
    \/ Construct
    \/ ModelledEngine /\ Next

ConstructSpec == ConstructInit /\ [][ConstructNext]_vars

\* the calls that reach the engine's state: reset and step
StepNext ==
    \/ Reset
    \/ \E a \in Actions : StepBegin(a)
    \/ FallbackLoop
    \/ StepTick

\* step() runs to completion once called: the loop and the tick are not
\* suspended (single-threaded, synchronous).  render, close and seed leave
\* the engine and the position in step alone, so progress is checked on the
\* calls that do not.
FairSpec == Init /\ [][StepNext]_vars /\ WF_vars(FallbackLoop) /\ WF_vars(StepTick)

-----------------------------------------------------------------------------
(* Properties. *)

\* a step() has returned normally and nothing was called since
StepReturned == pc = "idle" /\ ret.op = "step" /\ ret.err = "none"

\* C1, as claimed: every step's reward is the engine's score after the tick
\* minus the engine's score when step was called, and last_score is then the
\* score after the tick, also for a step made straight after construction.
C1_RewardIsScoreDelta ==
    StepReturned => /\ ret.reward = game.score - pre.score
                    /\ last_score = game.score

\* C1, amended: every step's reward is the engine's score after the tick minus
\* last_score as step found it, which is the engine's score at that moment
\* once a reset() or a step() has run, and 0 straight after construction;
\* last_score is then the score after the tick.
C1_RewardIsDeltaFromLastScore ==
    StepReturned => /\ ret.reward = game.score - pre.last_score
                    /\ pre.last_score = (IF pre.baselined THEN pre.score ELSE 0)
                    /\ last_score = game.score

\* a step after a reset found a nonzero score and returned a zero reward
C1_Witness ==
    StepReturned /\ pre.baselined /\ pre.score = 1 /\ game.score = 1 /\ ret.reward = 0

\* C2: a step with an action outside 0..4 fails with InvalidAction and calls
\* nothing on the engine: no mutation, no tick, score and game_over as before.
C2_InvalidActionRejected ==
    (pc = "idle" /\ ret.op = "step" /\ ret.action \notin ValidActions) =>
        /\ ret.err = "InvalidAction"
        /\ calls = <<>>
        /\ game.score = pre.score
        /\ game.game_over = pre.game_over

\* C3: when the dispatch of HARD_DROP is over and the tick is about to run,
\* the engine's piece is locked, with a native hard_drop and with the
\* move_down fallback loop alike.
C3_HardDropLocks == (pc = "tick" /\ action = 4) => game.locked

\* the fallback loop needed two move_down calls to lock the piece
C3_Witness ==
    /\ pc = "tick" /\ action = 4 /\ ~has_hard_drop
    /\ calls = <<"move_down", "move_down">>
    /\ game.locked

\* C4: when reset() returns, last_score is the engine's score, zero or not.
C4_ResetRebaselines == (pc = "idle" /\ ret.op = "reset") => last_score = game.score

\* a reset in mid-game that left a nonzero engine score
C4_Witness == pc = "idle" /\ ret.op = "reset" /\ game.score # 0 /\ closed /\ rendered

\* C5: the done flag step returns is the engine's game_over after that step's
\* tick, and info['score'] is the engine's score at that instant.
C5_DoneIsGameOver ==
    StepReturned => /\ ret.done = game.game_over
                    /\ ret.info = game.score

\* the step in which game_over first became true returned done = True
C5_Witness == StepReturned /\ ret.done /\ ~pre.game_over /\ ret.info > pre.score

\* C6: every observation reset() or step() returns has the shape
\* (grid_height, grid_width) read at construction and holds only 0 and 1.
C6_ObservationShape ==
    (pc = "idle" /\ ret.op \in {"reset", "step"} /\ ret.err = "none") =>
        /\ Len(ret.obs) = grid_height
        /\ \A r \in 1 .. Len(ret.obs) :
            /\ Len(ret.obs[r]) = grid_width
            /\ \A c \in 1 .. Len(ret.obs[r]) : ret.obs[r][c] \in {0, 1}

\* a step returned the observation of a board holding a colour code above 1
\* and a value that int8 wraps
C6_Witness ==
    /\ StepReturned
    /\ game.board[1][1] = MaxCell
    /\ game.board[2][1] = 128

\* C7: as long as close() has not been called, the render surface is created
\* exactly once, by the first render(), with size (grid_width * 30,
\* grid_height * 30), and every later render() keeps that surface.
C7_SurfaceCreatedOnce ==
    ~closed =>
        /\ created = (IF rendered THEN 1 ELSE 0)
        /\ ~rendered => screen = NoScreen
        /\ rendered => /\ screen = [id |-> 1, size |-> <<grid_width * 30, grid_height * 30>>]
                       /\ pg_live

\* a second render() found the surface of the first and drew on it
C7_Witness ==
    /\ ~closed /\ ret.op = "render" /\ pre.live /\ pre.screen_id = 1
    /\ calls = <<"fill", "draw", "flip">>

\* C8: close() never fails, releases the rendering resources when a live
\* surface exists, and releases nothing when render() was never called or
\* close() already ran since the surface was created.
C8_CloseReleasesOnlyLive ==
    ret.op = "close" => /\ ret.err = "none"
                        /\ (calls = <<"pygame.quit">>) <=> pre.live
                        /\ ~pre.live => calls = <<>>

\* C9: render(mode) with a mode other than "human" fails with an
\* unsupported-mode error and renders nothing: no surface is created, none is
\* cleared, the engine's draw is not called.
C9_UnsupportedModeRejected ==
    (ret.op = "render" /\ ret.mode # "human") =>
        /\ ret.err = "UnsupportedRenderMode"
        /\ calls = <<>>
        /\ screen.id = pre.screen_id

\* C10: a render() that finds the surface close() released either fails or
\* makes a new surface first; it does not clear or draw on the released one.
C10_NoDrawOnReleased ==
    (ret.op = "render" /\ pre.released) =>
        /\ ret.err # "none" \/ screen.id # pre.screen_id
        /\ screen.id = pre.screen_id =>
             \A i \in 1 .. Len(calls) : calls[i] \notin {"fill", "draw", "flip"}

\* render() after close() failed on the released surface
C10_Witness ==
    /\ ret.op = "render" /\ pre.released /\ closed
    /\ ret.err = "pygame.error" /\ calls = <<>>

\* the engine calls that apply a player action
ActionCalls == {"move_left", "move_right", "rotate", "move_down", "hard_drop"}

\* C11: a step with a valid action calls the engine's tick (game.step) exactly
\* once, after every call that applies the action: while the action is being
\* applied no tick has run, and the tick is the last engine call of the step.
C11_OneTickAfterAction ==
    (ret.op = "step" /\ ret.action \in ValidActions) =>
        /\ pc # "idle" => \A i \in 1 .. Len(calls) : calls[i] \in ActionCalls
        /\ pc = "idle" =>
            /\ Len(calls) >= 1
            /\ calls[Len(calls)] = "step"
            /\ \A i \in 1 .. Len(calls) - 1 : calls[i] \in ActionCalls

\* a hard drop through the fallback loop ended with its single tick
C11_Witness ==
    /\ pc = "idle" /\ ret.op = "step" /\ ret.action = 4
    /\ calls = <<"move_down", "move_down", "step">>

\* the engine call the claim assigns to actions 0..3
ClaimedCall(a) ==
    CASE a = 0 -> "move_left" [] a = 1 -> "move_right" [] a = 2 -> "rotate"
      [] OTHER -> "move_down"

\* C12: the dispatch of an action in 0..3 makes exactly one engine call, the
\* one that belongs to it, and the dispatch of action 4 on an engine with a
\* native hard_drop makes exactly one hard_drop call; nothing else is called
\* before the tick.
C12_OneCallPerAction ==
    /\ (pc = "tick" /\ action \in 0 .. 3) => calls = <<ClaimedCall(action)>>
    /\ (pc = "tick" /\ action = 4 /\ has_hard_drop) => calls = <<"hard_drop">>
    /\ (pc = "idle" /\ ret.op = "step" /\ ret.action \in 0 .. 3) =>
           calls = <<ClaimedCall(ret.action), "step">>
    /\ (pc = "idle" /\ ret.op = "step" /\ ret.action = 4 /\ has_hard_drop) =>
           calls = <<"hard_drop", "step">>

\* a soft drop has been dispatched as one move_down and the tick is next
C12_Witness == pc = "tick" /\ action = 3 /\ calls = <<"move_down">> /\ game.locked

C14_LastScoreIsScore == pc = "idle" => last_score = game.score

\* C14, amended: whenever no call is in progress and a reset() or a step()
\* has run, last_score is the engine's score; until then last_score is 0.
C14_LastScoreIsScoreOnceBaselined ==
    pc = "idle" => last_score = (IF baselined THEN game.score ELSE 0)

\* close() returned in mid-game with a nonzero score
C14_Witness ==
    /\ pc = "idle" /\ ret.op = "close" /\ baselined
    /\ game.score = MaxScore /\ game.game_over

\* the encoding the claim states: 1 where the cell value is above 0, else 0
Threshold(board) ==
    [r \in 1 .. Len(board) |-> [c \in 1 .. Len(board[r]) |->
        IF board[r][c] > 0 THEN 1 ELSE 0]]

\* C15: the observation step returns is the cell-wise thresholding (value > 0
\* gives 1, otherwise 0) of the engine's board as it is after that step's
\* tick.
C15_ObservationIsThreshold == StepReturned => ret.obs = Threshold(game.board)

\* the engine's board has no rows, or rows without columns
EmptyBoardShape ==
    Len(game.board) = 0 \/ \E r \in 1 .. Len(game.board) : Len(game.board[r]) = 0

\* C16: construction fails whenever the engine's board has zero rows or rows
\* of zero columns, and an adapter that was constructed has grid_height >= 1,
\* grid_width >= 1, last_score = 0 and no render surface.
C16_ConstructionRejectsEmptyBoard ==
    /\ (pc # "new" /\ EmptyBoardShape) => pc = "failed"
    /\ (pc = "idle" /\ ret.op = "init") =>
           /\ grid_height >= 1 /\ grid_width >= 1
           /\ last_score = 0 /\ screen = NoScreen

\* reset() has returned and nothing was called since
ResetReturned == pc = "idle" /\ ret.op = "reset"

\* C17: reset() can be called whenever no call is in progress (freshly
\* constructed, in mid-episode, after done, after close); each time it calls
\* the engine's reset exactly once and returns the encoding of the board the
\* engine then has; a reset() that follows a reset() leaves the adapter in the
\* same post-reset state: last_score is the engine's score, the game is not
\* over, the observation, the grid size and the render surface are the same.
C17_ResetFromAnyState ==
    /\ [](pc = "idle" => ENABLED Reset)
    /\ [](ResetReturned => /\ calls = <<"reset">>
                           /\ ret.err = "none"
                           /\ ret.obs = Threshold(game.board)
                           /\ last_score = game.score
                           /\ ~game.game_over)
    /\ [][(ResetReturned /\ ResetReturned') =>
            /\ ret'.obs = ret.obs
            /\ last_score' = game'.score
            /\ <<grid_height, grid_width, screen, pg_live>>' =
                   <<grid_height, grid_width, screen, pg_live>>]_vars

\* reset() was called after the episode ended and after close()
C17_Witness == ResetReturned /\ pre.game_over /\ closed /\ rendered

\* C18: step never calls the engine's reset; a step made after the game is
\* over, with no reset() in between, still applies its action and runs one
\* tick, and only the adapter's reset() calls the engine's reset.
C18_StepNeverResets ==
    /\ (\E i \in 1 .. Len(calls) : calls[i] = "reset") => ret.op = "reset"
    /\ (pc = "idle" /\ ret.op = "step" /\ pre.game_over) =>
           /\ Len(calls) >= 1
           /\ calls[Len(calls)] = "step"
           /\ ret.action \in 0 .. 3 => calls = <<ClaimedCall(ret.action), "step">>
           /\ game.game_over

\* a step made after the game was over rotated and ticked as usual
C18_Witness ==
    /\ StepReturned /\ pre.game_over /\ ret.done
    /\ calls = <<"rotate", "step">>

\* C19: seed, render and close leave last_score and the engine's game state
\* (board, score, game_over, locked) as they were, and seed calls nothing on
\* the engine and returns (a one-element sequence) rather than raising.
C19_SeedRenderCloseFrame ==
    [][ret'.op \in {"seed", "render", "close"} =>
          /\ last_score' = last_score
          /\ game' = game
          /\ ret'.op = "seed" => (calls' = <<>> /\ ret'.err = "none")]_vars

====
